---------------------------- MODULE Spec2Model ----------------------------
(***************************************************************************)
(* Model of django_sharding_library/decorators.py: the class decorator     *)
(* model_config(shard_group, database, sharded_by_field) and its inner     *)
(* function configure(cls).                                                *)
(*                                                                         *)
(* A model class is a record of the attributes configure reads or writes.  *)
(* One step of the model is one call configure(cls); the class keeps the   *)
(* attributes earlier calls left on it (a decorated class can be decorated *)
(* again, and a subclass inherits the attributes of a decorated parent).   *)
(***************************************************************************)
EXTENDS Integers, Sequences, FiniteSets, TLC

VARIABLES
    cls,        \* the model class as it is now
    pre,        \* the class as it was when the last call started
    args,       \* the arguments of the last call
    outcome,    \* how the last call ended: a return or a raise
    result,     \* identity of the object the last call returned (0: none)
    reads,      \* attributes of cls the last call read
    writes,     \* attributes of cls the last call assigned
    nextId,     \* identity given to the next manager instance constructed
    calls       \* number of calls made so far

vars == <<cls, pre, args, outcome, result, reads, writes, nextId, calls>>

----------------------------------------------------------------------------
(* Bounds *)

MaxFields == 2
MaxCalls == 1

----------------------------------------------------------------------------
(* Python values *)

None == "None"
PyTrue == "True"

\* marks an attribute the class does not have
Unset == "unset"
NoAttrs ==
    [django_sharding__database |-> Unset, django_sharding__shard_group |-> Unset,
     django_sharding__is_sharded |-> Unset, django_sharding__sharded_by_field |-> Unset]

\* bool(v) of a str-or-None value
Truthy(v) == v # None /\ v # ""

\* dict.get(key): the value, or None when the key is missing
Get(d, key) == IF key \in DOMAIN d THEN d[key] ELSE None

\* settings.DATABASES: a primary, a shard primary, a replica of the primary
\* (its PRIMARY names it) and an entry whose PRIMARY is the empty string
DATABASES ==
    ("default"   :> [NAME |-> "app"]) @@
    ("shard_001" :> [NAME |-> "shard1"]) @@
    ("replica_1" :> [NAME |-> "app", PRIMARY |-> "default"]) @@
    ("archive"   :> [NAME |-> "old", PRIMARY |-> ""])

ShardGroupArgs == {None, "", "user_shards"}
DatabaseArgs == {None, "", "default", "replica_1", "archive", "analytics"}
ShardedByFieldArgs == {None, "", "user_id"}

----------------------------------------------------------------------------
(* Classes of the host framework, as far as configure tells them apart *)

\* field classes: TableShardedIDField derives from ShardedIDFieldMixin
FieldKinds == {"AutoField", "TableShardedIDField"}
ShardedIDFieldMixinSubclasses == {"TableShardedIDField"}

\* manager classes: ShardManager, a subclass of it, the default Manager and
\* a Manager subclass that does not derive from ShardManager
ManagerKinds == {"Manager", "ShardManager", "ShardManagerSubclass", "CustomManager"}
ShardManagerClasses == {"ShardManager", "ShardManagerSubclass"}

NoManager == [kind |-> "absent", id |-> 0]

SeqsUpTo(S, n) == UNION {[1..k -> S] : k \in 0..n}

\* concrete model: has a primary key among its fields; `objects` is a manager
\* or is absent (swapped model, or the manager has another name)
ConcreteClasses ==
    {[ident |-> 1, attrs |-> NoAttrs, abstract |-> FALSE,
      fields |-> f, pk |-> p, get_shard |-> gs, get_shard_from_id |-> gi,
      objects |-> o, base_manager |-> [kind |-> "Manager", id |-> 2],
      abstract_managers |-> <<>>] :
        f \in SeqsUpTo(FieldKinds, MaxFields) \ {<<>>}, p \in 1..MaxFields,
        gs \in BOOLEAN, gi \in BOOLEAN,
        o \in {NoManager} \cup {[kind |-> k, id |-> 1] : k \in ManagerKinds}}

\* the managers an abstract base class may declare: none, one that is not a
\* ShardManager, a ShardManager, and lists that mix them
AbstractManagerLists ==
    {<<>>, <<"CustomManager">>, <<"ShardManager">>,
     <<"Manager", "CustomManager">>, <<"CustomManager", "ShardManagerSubclass">>}

\* abstract model: access to `objects` raises AttributeError; the managers
\* declared on it are in _meta.abstract_managers
AbstractClasses ==
    {[ident |-> 1, attrs |-> NoAttrs, abstract |-> TRUE,
      fields |-> f, pk |-> p, get_shard |-> gs, get_shard_from_id |-> gi,
      objects |-> NoManager, base_manager |-> NoManager,
      abstract_managers |-> [i \in DOMAIN m |-> [kind |-> m[i], id |-> i]]] :
        f \in SeqsUpTo(FieldKinds, MaxFields), p \in 0..MaxFields,
        gs \in BOOLEAN, gi \in BOOLEAN,
        m \in AbstractManagerLists}

ModelClasses == {c \in ConcreteClasses \cup AbstractClasses : c.pk <= Len(c.fields)}

----------------------------------------------------------------------------
(* The run of one call: the class, how the call has ended so far, what it  *)
(* has read and written, and the next manager identity                     *)

Running == [kind |-> "running", exc |-> "none", line |-> 0]

Start(c, n) == [cls |-> c, outcome |-> Running, reads |-> {}, writes |-> {}, nextId |-> n]

\* raise exc(...) at the given source line
Raise(e, exc, line) == [e EXCEPT !.outcome = [kind |-> "raise", exc |-> exc, line |-> line]]

\* an attribute access cls.<name>
Read(e, name) == [e EXCEPT !.reads = @ \cup {name}]

\* setattr(cls, name, value)
SetAttr(e, name, value) ==
    [e EXCEPT !.cls.attrs[name] = value, !.writes = @ \cup {name}]

----------------------------------------------------------------------------
(* if database and shard_group: raise ... / if not database and not        *)
(* shard_group: raise ...                                                  *)

CheckArgumentsBothOnly(e, shard_group, database) ==
    IF Truthy(database) /\ Truthy(shard_group)
    THEN Raise(e, "ShardedModelInitializationException", 17)
    ELSE e

CheckArguments(e, shard_group, database) ==
    IF Truthy(database) /\ Truthy(shard_group)
    THEN Raise(e, "ShardedModelInitializationException", 17)
    ELSE IF ~Truthy(database) /\ ~Truthy(shard_group)
         THEN Raise(e, "ShardedModelInitializationException", 20)
         ELSE e

----------------------------------------------------------------------------
(* if database: ...                                                        *)

NotAPrimaryDatabaseKeyOnly(database) ==
    database \notin DOMAIN DATABASES

\* database not in settings.DATABASES or settings.DATABASES[database].get('PRIMARY')
NotAPrimaryDatabase(database) ==
    \/ database \notin DOMAIN DATABASES
    \/ Truthy(Get(DATABASES[database], "PRIMARY"))

DatabasePathAlsoSharded(e, database) ==
    IF NotAPrimaryDatabase(database)
    THEN Raise(Read(e, "_meta"), "NonExistentDatabaseException", 24)
    ELSE SetAttr(SetAttr(e, "django_sharding__database", database),
                 "django_sharding__is_sharded", PyTrue)

DatabasePath(e, database) ==
    IF NotAPrimaryDatabase(database)
    THEN Raise(Read(e, "_meta"), "NonExistentDatabaseException", 24)
    ELSE SetAttr(e, "django_sharding__database", database)

----------------------------------------------------------------------------
(* if shard_group: the three checks of a sharded model                     *)

\* issubclass(type(field), ShardedIDFieldMixin)
IsShardedIDField(kind) == kind \in ShardedIDFieldMixinSubclasses

\* list(filter(lambda field: issubclass(type(field), ShardedIDFieldMixin),
\* cls._meta.fields)), as the positions of the fields kept
ShardedFields(c) == {i \in DOMAIN c.fields : IsShardedIDField(c.fields[i])}

\* list(filter(lambda field: field == cls._meta.pk, sharded_fields))
PrimaryKeyAmong(c, sharded_fields) == {i \in sharded_fields : i = c.pk}

ShardedModelChecksGetShardFirst(e) ==
    LET c  == e.cls
        e1 == Read(Read(e, "get_shard"), "_meta")
    IN  IF ~c.get_shard
        THEN Raise(e1, "ShardedModelInitializationException", 38)
        ELSE IF ShardedFields(c) = {}
        THEN Raise(e1, "ShardedModelInitializationException", 32)
        ELSE IF PrimaryKeyAmong(c, ShardedFields(c)) = {}
        THEN Raise(e1, "ShardedModelInitializationException", 35)
        ELSE e1

ShardedModelChecks(e) ==
    LET c  == e.cls
        e1 == Read(e, "_meta")
    IN  IF ShardedFields(c) = {}
        THEN Raise(e1, "ShardedModelInitializationException", 32)
        ELSE IF PrimaryKeyAmong(c, ShardedFields(c)) = {}
        THEN Raise(e1, "ShardedModelInitializationException", 35)
        ELSE IF ~c.get_shard
        THEN Raise(Read(e1, "get_shard"), "ShardedModelInitializationException", 38)
        ELSE Read(e1, "get_shard")

----------------------------------------------------------------------------
(* if sharded_by_field: the manager of the class                           *)

\* isinstance(manager, ShardManager)
IsInstanceShardManager(m) == m.kind \in ShardManagerClasses

IsDefaultManagerByInstance(m) == m.kind \in ManagerKinds

\* type(manager) == Manager
IsDefaultManager(m) == m.kind = "Manager"

\* cls.objects raises AttributeError: the class is abstract, or it has no
\* attribute of that name
ObjectsRaisesAttributeError(c) == c.abstract \/ c.objects = NoManager

\* cls.add_to_class('objects', ShardManager()): a new manager instance, which
\* a concrete class gets as its `objects` and an abstract class records in
\* _meta.abstract_managers
AddToClass(e, kind) ==
    LET m == [kind |-> kind, id |-> e.nextId]
    IN  IF e.cls.abstract
        THEN [e EXCEPT !.cls.abstract_managers = Append(@, m),
                       !.writes = @ \cup {"abstract_managers"},
                       !.nextId = @ + 1]
        ELSE [e EXCEPT !.cls.objects = m,
                       !.writes = @ \cup {"objects"},
                       !.nextId = @ + 1]

\* cls._base_manager = cls.objects
SetBaseManager(e) ==
    [e EXCEPT !.cls.base_manager = e.cls.objects,
              !.reads = @ \cup {"objects"},
              !.writes = @ \cup {"_base_manager"}]

\* the except AttributeError branch
AbstractManagerStep(e) ==
    LET c  == e.cls
        e1 == Read(e, "_meta")
    IN  IF c.abstract
        THEN IF ~(Len(c.abstract_managers) > 0)
             THEN AddToClass(e1, "ShardManager")
             ELSE IF ~(\E i \in DOMAIN c.abstract_managers :
                          IsInstanceShardManager(c.abstract_managers[i]))
                  THEN Raise(e1, "ShardedModelInitializationException", 59)
                  ELSE e1
        ELSE Raise(e1, "AttributeError", 65)

\* the try statement
ManagerStep(e) ==
    LET c  == e.cls
        e1 == Read(e, "objects")
    IN  IF ObjectsRaisesAttributeError(c)
        THEN AbstractManagerStep(e1)
        ELSE IF ~IsInstanceShardManager(c.objects)
             THEN IF IsDefaultManager(c.objects)
                  THEN SetBaseManager(AddToClass(e1, "ShardManager"))
                  ELSE Raise(e1, "ShardedModelInitializationException", 51)
             ELSE e1

ShardedByFieldPath(e, sharded_by_field) ==
    LET e1 == ManagerStep(e)
    IN  IF e1.outcome # Running
        THEN e1
        ELSE LET e2 == Read(SetAttr(e1, "django_sharding__sharded_by_field", sharded_by_field),
                            "get_shard_from_id")
             IN  IF ~e2.cls.get_shard_from_id
                 THEN Raise(e2, "ShardedModelInitializationException", 68)
                 ELSE e2

----------------------------------------------------------------------------
(* if shard_group: ...                                                     *)

ShardPathNotNone(e, shard_group, sharded_by_field) ==
    LET e1 == ShardedModelChecks(e)
    IN  IF e1.outcome # Running
        THEN e1
        ELSE LET e2 == SetAttr(SetAttr(e1, "django_sharding__shard_group", shard_group),
                               "django_sharding__is_sharded", PyTrue)
             IN  IF sharded_by_field # None
                 THEN ShardedByFieldPath(e2, sharded_by_field)
                 ELSE e2

ShardPathSetFirst(e, shard_group, sharded_by_field) ==
    LET e0 == SetAttr(SetAttr(e, "django_sharding__shard_group", shard_group),
                      "django_sharding__is_sharded", PyTrue)
        e1 == ShardedModelChecks(e0)
    IN  IF e1.outcome # Running
        THEN e1
        ELSE IF Truthy(sharded_by_field)
             THEN ShardedByFieldPath(e1, sharded_by_field)
             ELSE e1

ShardPath(e, shard_group, sharded_by_field) ==
    LET e1 == ShardedModelChecks(e)
    IN  IF e1.outcome # Running
        THEN e1
        ELSE LET e2 == SetAttr(SetAttr(e1, "django_sharding__shard_group", shard_group),
                               "django_sharding__is_sharded", PyTrue)
             IN  IF Truthy(sharded_by_field)
                 THEN ShardedByFieldPath(e2, sharded_by_field)
                 ELSE e2

----------------------------------------------------------------------------
(* configure(cls), closed over the arguments of model_config               *)

\* return cls
Return(e) == [e EXCEPT !.outcome = [kind |-> "return", exc |-> "none", line |-> 71]]

configure(c, n, shard_group, database, sharded_by_field) ==
    LET e1 == CheckArguments(Start(c, n), shard_group, database)
        e2 == IF e1.outcome = Running /\ Truthy(database)
              THEN DatabasePath(e1, database) ELSE e1
        e3 == IF e2.outcome = Running /\ Truthy(shard_group)
              THEN ShardPath(e2, shard_group, sharded_by_field) ELSE e2
    IN  IF e3.outcome = Running THEN Return(e3) ELSE e3

----------------------------------------------------------------------------
(* The state machine *)

NoCall == [kind |-> "none", exc |-> "none", line |-> 0]
NoArgs == [shard_group |-> None, database |-> None, sharded_by_field |-> None]

\* the managers of a fresh class have the identities 1 and 2
FirstNewId == 3

Init ==
    /\ cls \in ModelClasses
    /\ pre = cls
    /\ args = NoArgs
    /\ outcome = NoCall
    /\ result = 0
    /\ reads = {}
    /\ writes = {}
    /\ nextId = FirstNewId
    /\ calls = 0

\* model_config(shard_group, database, sharded_by_field)(cls), applied while
\* the class is being defined: an exception of an earlier decorator ends the
\* definition, so no further decorator is applied after one
Configure(shard_group, database, sharded_by_field) ==
    /\ calls < MaxCalls
    /\ outcome.kind # "raise"
    /\ LET e == configure(cls, nextId, shard_group, database, sharded_by_field)
       IN  /\ cls' = e.cls
           /\ outcome' = e.outcome
           /\ result' = IF e.outcome.kind = "return" THEN e.cls.ident ELSE 0
           /\ reads' = e.reads
           /\ writes' = e.writes
           /\ nextId' = e.nextId
    /\ pre' = cls
    /\ args' = [shard_group |-> shard_group, database |-> database,
                sharded_by_field |-> sharded_by_field]
    /\ calls' = calls + 1

Next ==
    \E sg \in ShardGroupArgs, db \in DatabaseArgs, sbf \in ShardedByFieldArgs :
        Configure(sg, db, sbf)

Spec == Init /\ [][Next]_vars

TypeOK ==
    /\ calls \in 0..MaxCalls
    /\ outcome.kind \in {"none", "return", "raise"}
    /\ args.shard_group \in ShardGroupArgs
    /\ args.database \in DatabaseArgs
    /\ args.sharded_by_field \in ShardedByFieldArgs

----------------------------------------------------------------------------
(* Vocabulary of the properties *)

SMIE == "ShardedModelInitializationException"

Called == outcome.kind # "none"
Returned == outcome.kind = "return"
RaisedAt(exc, line) == outcome = [kind |-> "raise", exc |-> exc, line |-> line]

OnlyDatabaseGiven == Called /\ Truthy(args.database) /\ ~Truthy(args.shard_group)
OnlyShardGroupGiven == Called /\ Truthy(args.shard_group) /\ ~Truthy(args.database)

ShardingAttrs ==
    {"django_sharding__shard_group", "django_sharding__is_sharded",
     "django_sharding__sharded_by_field"}

\* the three conditions of a sharded model, on the class as the call found it
HasShardedIDField ==
    \E i \in DOMAIN pre.fields : pre.fields[i] \in ShardedIDFieldMixinSubclasses
ShardedIDFieldIsPk ==
    \E i \in DOMAIN pre.fields :
        pre.fields[i] \in ShardedIDFieldMixinSubclasses /\ i = pre.pk
ShardedChecksPass == HasShardedIDField /\ ShardedIDFieldIsPk /\ pre.get_shard

HasObjectsManager == ~pre.abstract /\ pre.objects # NoManager

\* the class as the call found it, with shard_group and is_sharded assigned
WithShardGroup ==
    [pre EXCEPT !.attrs.django_sharding__shard_group = args.shard_group,
                !.attrs.django_sharding__is_sharded = PyTrue]

----------------------------------------------------------------------------
(* C1: a call with database and shard_group both truthy, or both falsy     *)
(* (None or empty), raises ShardedModelInitializationException whatever    *)
(* the class and sharded_by_field are, before any attribute or manager of  *)
(* cls is read or written: cls is left exactly as it was.                  *)
C1_BothOrNeitherRaises ==
    /\ (Called /\ Truthy(args.database) /\ Truthy(args.shard_group))
          => RaisedAt(SMIE, 17) /\ reads = {} /\ writes = {} /\ cls = pre
    /\ (Called /\ ~Truthy(args.database) /\ ~Truthy(args.shard_group))
          => RaisedAt(SMIE, 20) /\ reads = {} /\ writes = {} /\ cls = pre

C1_Witness ==
    /\ args = [shard_group |-> None, database |-> "", sharded_by_field |-> "user_id"]
    /\ RaisedAt(SMIE, 20)
    /\ pre.objects.kind = "Manager"

(* C2: with only database given, NonExistentDatabaseException is raised    *)
(* exactly when database is not a key of settings.DATABASES or its entry   *)
(* has a truthy PRIMARY; then django_sharding__database is not set. For a  *)
(* key without a truthy PRIMARY no exception is raised.                    *)
C2_NonExistentDatabase ==
    OnlyDatabaseGiven =>
        LET missing == args.database \notin DOMAIN DATABASES
            replica == /\ ~missing
                       /\ "PRIMARY" \in DOMAIN DATABASES[args.database]
                       /\ DATABASES[args.database].PRIMARY \notin {None, ""}
        IN  /\ (missing \/ replica) <=> RaisedAt("NonExistentDatabaseException", 24)
            /\ (missing \/ replica) =>
                  /\ "django_sharding__database" \notin writes
                  /\ cls.attrs.django_sharding__database = pre.attrs.django_sharding__database
            /\ ~(missing \/ replica) => outcome.kind # "raise"

C2_Witness ==
    /\ OnlyDatabaseGiven
    /\ args.database = "replica_1"
    /\ RaisedAt("NonExistentDatabaseException", 24)
    /\ cls.attrs.django_sharding__database = Unset

(* C3: with only database given and valid, configure returns the very same *)
(* class with django_sharding__database equal to the database name and     *)
(* changes nothing else: no sharding attribute is set, the managers are    *)
(* untouched and sharded_by_field is ignored.                              *)
C3_DatabaseOnlyFrame ==
    (/\ OnlyDatabaseGiven
     /\ args.database \in DOMAIN DATABASES
     /\ ~Truthy(Get(DATABASES[args.database], "PRIMARY")))
        => /\ Returned
           /\ result = pre.ident
           /\ cls = [pre EXCEPT !.attrs.django_sharding__database = args.database]
           /\ writes = {"django_sharding__database"}

C3_Witness ==
    /\ OnlyDatabaseGiven
    /\ args.database = "default"
    /\ args.sharded_by_field = "user_id"
    /\ Returned
    /\ cls.attrs.django_sharding__database = "default"
    /\ cls.attrs.django_sharding__sharded_by_field = Unset

(* C4: with only shard_group given, configure raises                       *)
(* ShardedModelInitializationException and sets none of the sharding       *)
(* attributes when (1) no field is a ShardedIDFieldMixin field, (2) none   *)
(* of those fields is the primary key, or (3) get_shard is not callable;   *)
(* the exception is that of the first failing check in this order.         *)
C4_ShardedChecksInOrder ==
    (OnlyShardGroupGiven /\ ~ShardedChecksPass)
        => /\ outcome.kind = "raise"
           /\ outcome.exc = SMIE
           /\ outcome.line = IF ~HasShardedIDField THEN 32
                             ELSE IF ~ShardedIDFieldIsPk THEN 35
                             ELSE 38
           /\ writes \cap ShardingAttrs = {}
           /\ cls.attrs = pre.attrs

C4_Witness ==
    /\ OnlyShardGroupGiven
    /\ HasShardedIDField /\ ~ShardedIDFieldIsPk /\ ~pre.get_shard
    /\ RaisedAt(SMIE, 35)

(* C5: with only shard_group given, a falsy sharded_by_field and the three *)
(* checks passing, configure returns the same class with                   *)
(* django_sharding__shard_group set to shard_group and                     *)
(* django_sharding__is_sharded set to True, and nothing else changed.      *)
C5_ShardGroupOnlyFrame ==
    (OnlyShardGroupGiven /\ ~Truthy(args.sharded_by_field) /\ ShardedChecksPass)
        => /\ Returned
           /\ result = pre.ident
           /\ cls = WithShardGroup
           /\ writes = {"django_sharding__shard_group", "django_sharding__is_sharded"}

C5_Witness ==
    /\ OnlyShardGroupGiven
    /\ args.sharded_by_field = ""
    /\ ShardedChecksPass
    /\ Returned
    /\ cls.attrs.django_sharding__shard_group = "user_shards"
    /\ cls.attrs.django_sharding__is_sharded = PyTrue
    /\ pre.objects.kind = "Manager" /\ cls.objects = pre.objects

(* C6: with shard_group and sharded_by_field given, on a class with an     *)
(* objects manager that passes the checks: a ShardManager (or subclass)    *)
(* instance is left in place; a manager whose type is exactly Manager is   *)
(* replaced by a new ShardManager, which also becomes _base_manager; any   *)
(* other manager makes configure raise, the managers not replaced. After   *)
(* a successful configure with sharded_by_field on a concrete model,       *)
(* objects is a ShardManager.                                              *)
C6_ManagerRule ==
    /\ (/\ OnlyShardGroupGiven /\ Truthy(args.sharded_by_field)
        /\ ShardedChecksPass /\ HasObjectsManager)
          => /\ pre.objects.kind \in {"ShardManager", "ShardManagerSubclass"}
                  => cls.objects = pre.objects /\ cls.base_manager = pre.base_manager
             /\ pre.objects.kind = "Manager"
                  => /\ cls.objects.kind = "ShardManager"
                     /\ cls.objects.id \notin {pre.objects.id, pre.base_manager.id}
                     /\ cls.base_manager = cls.objects
             /\ pre.objects.kind \notin {"ShardManager", "ShardManagerSubclass", "Manager"}
                  => /\ RaisedAt(SMIE, 51)
                     /\ cls.objects = pre.objects /\ cls.base_manager = pre.base_manager
    /\ (/\ OnlyShardGroupGiven /\ Truthy(args.sharded_by_field)
        /\ Returned /\ ~pre.abstract)
          => cls.objects.kind \in {"ShardManager", "ShardManagerSubclass"}

C6_Witness ==
    /\ OnlyShardGroupGiven /\ args.sharded_by_field = "user_id"
    /\ ShardedChecksPass /\ HasObjectsManager
    /\ pre.objects.kind = "Manager"
    /\ Returned
    /\ cls.objects.kind = "ShardManager"
    /\ cls.base_manager = cls.objects

(* C7, as stated: whenever configure raises, cls is left exactly as before *)
(* the call, also when the failing check is the custom-manager check or    *)
(* the get_shard_from_id check.                                            *)
C7_AllOrNothing ==
    outcome.kind = "raise" => cls = pre

(* C7, amended: a raise of the argument check, the database check or one   *)
(* of the three sharded-model checks leaves cls exactly as before. A raise *)
(* on the sharded_by_field path comes after assignments: at the            *)
(* custom-manager check, the abstract-manager check and the passed-through *)
(* AttributeError shard_group and is_sharded are already set; at the       *)
(* get_shard_from_id check sharded_by_field is set as well and a default   *)
(* manager has been replaced (an abstract class without managers has been  *)
(* given a ShardManager).                                                  *)
C7_RaiseFrame ==
    outcome.kind = "raise" =>
        /\ outcome.line \in {17, 20, 24, 32, 35, 38, 51, 59, 65, 68}
        /\ outcome.line \in {17, 20, 24, 32, 35, 38}
              => cls = pre /\ writes = {}
        /\ outcome.line \in {51, 59, 65}
              => /\ cls = WithShardGroup
                 /\ writes = {"django_sharding__shard_group", "django_sharding__is_sharded"}
                 /\ outcome.exc = IF outcome.line = 65 THEN "AttributeError" ELSE SMIE
        /\ outcome.line = 68
              => /\ cls.attrs = [WithShardGroup.attrs EXCEPT
                                    !.django_sharding__sharded_by_field = args.sharded_by_field]
                 /\ ShardingAttrs \subseteq writes
                 /\ IF HasObjectsManager /\ pre.objects.kind = "Manager"
                    THEN /\ cls.objects.kind = "ShardManager"
                         /\ cls.objects # pre.objects
                         /\ cls.base_manager = cls.objects
                         /\ cls.abstract_managers = pre.abstract_managers
                    ELSE IF pre.abstract /\ pre.abstract_managers = <<>>
                    THEN /\ Len(cls.abstract_managers) = 1
                         /\ cls.abstract_managers[1].kind = "ShardManager"
                         /\ cls.objects = pre.objects
                         /\ cls.base_manager = pre.base_manager
                    ELSE /\ cls.objects = pre.objects
                         /\ cls.base_manager = pre.base_manager
                         /\ cls.abstract_managers = pre.abstract_managers

C7_Witness ==
    /\ RaisedAt(SMIE, 68)
    /\ pre.objects.kind = "Manager"
    /\ cls.objects.kind = "ShardManager"
    /\ pre.attrs = NoAttrs
    /\ cls.attrs.django_sharding__sharded_by_field = "user_id"

============================================================================
